---- MODULE Spec2Model ----
(***************************************************************************)
(* Traffic-Light-Board: bare-metal firmware (src/main.c) that configures   *)
(* five GPIO lines and the GIC distributor, enables IRQs and then runs a   *)
(* dispatcher loop that drives three output lines in one of two timed      *)
(* patterns selected by the shared word sharedValue.                       *)
(*                                                                         *)
(* A 32-bit register value is modelled as the set of its set bit           *)
(* positions (a subset of 0..31): & is intersection, | is union, ~ is the  *)
(* complement within 0..31, << moves positions up and drops those >= 32.   *)
(***************************************************************************)
EXTENDS Integers, Sequences, FiniteSets, TLC

\* ------------------------------------------------------------------ bounds
\* Number of initial register patterns drawn for the hardware registers.
NumSeeds == 4
\* The interrupt context writes values 0..MaxShared to the shared word.
MaxShared == 2
\* Number of routine calls made by the call harness (CallSpec).
MaxCalls == 2

\* --------------------------------------------------------------- constants
\* Width of unsigned int / of a hardware register.
WordBits == 32
\* Highest exception level value tested by main.
EL3 == 3

\* ------------------------------------------------------------ 32-bit words
AllBits == 0 .. (WordBits - 1)

RECURSIVE Bits(_)
\* The word whose value is the natural number n (n < 2^31).
Bits(n) ==
    IF n = 0 THEN {}
    ELSE (IF n % 2 = 1 THEN {0} ELSE {}) \cup {b + 1 : b \in Bits(n \div 2)}

And(a, b) == a \cap b
Or(a, b) == a \cup b
Not(a) == AllBits \ a
Shl(a, n) == {b + n : b \in a} \cap AllBits

\* The width-bit field of word w starting at bit lo, as a word.
Field(w, lo, width) == {b - lo : b \in (w \cap (lo .. (lo + width - 1)))}
\* Word w with the field lo..lo+width-1 removed.
Outside(w, lo, width) == w \ (lo .. (lo + width - 1))

\* Initial register patterns: all zero, all ones, every k-th bit; the
\* edge-detect registers start from the complements of these.
Seed(k) ==
    IF k = 0 THEN {}
    ELSE IF k = 1 THEN AllBits
    ELSE {b \in AllBits : b % k = 0}

Seeds == 0 .. (NumSeeds - 1)

\* ---------------------------------------------------------------- state
VARIABLES
    pc,          \* position of the main context
    ret,         \* position the running routine returns to
    idx,         \* index of the next call in the current call sequence
    i,           \* main's loop counter i
    el,          \* main's local el
    arg,         \* argument of the running routine (microsecond_delay)
    sharedValue, \* the shared word
    redBool,
    irqOn,       \* IRQ exceptions unmasked on the core (after enableIRQ)
    GPFSEL0, GPFSEL1, GPPUPPDN0, GPREN0, GPFEN0,
    lev,         \* output levels of the GPIO lines (driven by GPSET0/GPCLR0)
    gicd,        \* distributor registers written so far: <<bank, index>> -> word
    branch,      \* pattern chosen by the current dispatcher iteration
    sample0,     \* value read by the comparison sharedValue == 0
    sample1,     \* value used by the comparison sharedValue == 1
    startLev,    \* lev when the current iteration sampled the shared word
    log,         \* history: events of setup, or of the current harness call
    pass,        \* history: events of the current dispatcher iteration
    cur,         \* history: routine running or last returned
    entry,       \* history: register contents when cur was called
    before,      \* history: register contents when the previous call was made
    prev,        \* history: routine called before cur
    calls,       \* history: number of harness calls made
    mainWrites   \* history: number of writes of sharedValue by main

hw == <<GPFSEL0, GPFSEL1, GPPUPPDN0, GPREN0, GPFEN0, lev>>
shared == <<sharedValue, redBool, mainWrites>>
disp == <<branch, sample0, sample1, startLev>>
callst == <<cur, entry, before, prev, calls>>
vars == <<pc, ret, idx, i, el, arg, sharedValue, redBool, irqOn,
          GPFSEL0, GPFSEL1, GPPUPPDN0, GPREN0, GPFEN0, lev, gicd,
          branch, sample0, sample1, startLev, log, pass,
          cur, entry, before, prev, calls, mainWrites>>

Snapshot ==
    [GPFSEL0 |-> GPFSEL0, GPFSEL1 |-> GPFSEL1, GPPUPPDN0 |-> GPPUPPDN0,
     GPREN0 |-> GPREN0, GPFEN0 |-> GPFEN0, lev |-> lev]

\* ---------------------------------------------------------------- history
Ev(op, reg, val, n) == [op |-> op, reg |-> reg, val |-> val, n |-> n]
Wr(reg, val) == Ev("write", reg, val, 0)
GicWr(bank, k, val) == Ev("write", bank, val, k)
Nop(n) == Ev("nop", "", {}, n)
Delay(n) == Ev("delay", "", {}, n)

InLoop == ret \in {"pattern", "L184"}

\* A routine's event goes to the iteration history when the routine was
\* called from the dispatcher loop, to the setup history otherwise.
Emit(e) ==
    IF InLoop
    THEN pass' = Append(pass, e) /\ UNCHANGED log
    ELSE log' = Append(log, e) /\ UNCHANGED pass

\* Number of iterations of  r = n; while (r--) { nop }.
BusyWait(n) == n

\* Value of sample0 / sample1 while the comparison has not been made.
NoSample == 0 - 1

\* State after construction, main context at position p.
InitAt(p) ==
    /\ pc = p
    /\ ret = p
    /\ idx = 1
    /\ i = 0
    /\ el = 0
    /\ arg = 0
    /\ sharedValue = 0
    /\ redBool = 0
    /\ irqOn = FALSE
    /\ \E a \in Seeds, b \in Seeds :
          /\ GPFSEL0 = Seed(a)
          /\ GPFSEL1 = Seed(a)
          /\ GPPUPPDN0 = Seed(a)
          /\ GPREN0 = Not(Seed(b))
          /\ GPFEN0 = Not(Seed(b))
          /\ lev = Seed(b)
    /\ gicd = << >>
    /\ branch = "none"
    /\ sample0 = NoSample
    /\ sample1 = NoSample
    /\ startLev = lev
    /\ log = << >>
    /\ pass = << >>
    /\ cur = "none"
    /\ prev = "none"
    /\ entry = Snapshot
    /\ before = Snapshot
    /\ calls = 0
    /\ mainWrites = 0

\* ------------------------------------------------- line configuration values
\* r &= ~(0x7)
GPIO0_FselValue(r) == And(r, Not(Bits(7)))
\* r &= ~(0x3); r |= (0x1 << 1)
GPIO0_PullValue(r) == Or(And(r, Not(Bits(3))), Shl(Bits(1), 1))
\* Mutant of GPIO1_FselValue: the field is toggled (r ^= (0x7 << 3)).
GPIO1_FselValue_toggle(r) ==
    (r \ Shl(Bits(7), 3)) \cup (Shl(Bits(7), 3) \ r)
\* r &= ~(0x7 << 3)
GPIO1_FselValue(r) == And(r, Not(Shl(Bits(7), 3)))
\* r &= ~(0x3 << 2)
GPIO1_PullValue(r) == And(r, Not(Shl(Bits(3), 2)))
\* r &= ~(0x7 << 12); r |= (0x1 << 12)
GPIO4_FselValue(r) == Or(And(r, Not(Shl(Bits(7), 12))), Shl(Bits(1), 12))
\* r &= ~(0x7 << 6); r |= (0x1 << 6)
GPIO12_FselValue(r) == Or(And(r, Not(Shl(Bits(7), 6))), Shl(Bits(1), 6))
\* Mutant of GPIO16_FselValue: the field is not cleared before the mode is set.
GPIO16_FselValue_noclear(r) == Or(r, Shl(Bits(1), 18))
\* r &= ~(0x7 << 18); r |= (0x1 << 18)
GPIO16_FselValue(r) == Or(And(r, Not(Shl(Bits(7), 18))), Shl(Bits(1), 18))

\* Hardware: a write of mask m to GPSET0 drives the lines of m high, a write
\* to GPCLR0 drives them low; zero bits of the mask have no effect.
SetLines(l, m) == Or(l, m)
ClearLines(l, m) == And(l, Not(m))

\* ------------------------------------------- init_GPIO0_to_risingEdgeInterrupt
init_GPIO0_FSEL ==
    /\ pc = "init_GPIO0_FSEL"
    /\ GPFSEL0' = GPIO0_FselValue(GPFSEL0)
    /\ Emit(Wr("GPFSEL0", GPFSEL0'))
    /\ pc' = "init_GPIO0_wait1"
    /\ UNCHANGED <<GPFSEL1, GPPUPPDN0, GPREN0, GPFEN0, lev>>
    /\ UNCHANGED <<ret, idx, i, el, arg, irqOn, gicd, shared, disp, callst>>

init_GPIO0_wait1 ==
    /\ pc = "init_GPIO0_wait1"
    /\ Emit(Nop(BusyWait(150)))
    /\ pc' = "init_GPIO0_PUD"
    /\ UNCHANGED <<hw, ret, idx, i, el, arg, irqOn, gicd, shared, disp, callst>>

init_GPIO0_PUD ==
    /\ pc = "init_GPIO0_PUD"
    /\ GPPUPPDN0' = GPIO0_PullValue(GPPUPPDN0)
    /\ Emit(Wr("GPPUPPDN0", GPPUPPDN0'))
    /\ pc' = "init_GPIO0_wait2"
    /\ UNCHANGED <<GPFSEL0, GPFSEL1, GPREN0, GPFEN0, lev>>
    /\ UNCHANGED <<ret, idx, i, el, arg, irqOn, gicd, shared, disp, callst>>

\* Mutant of init_GPIO0_wait2: the second settle loop counts 15 iterations.
init_GPIO0_wait2_short ==
    /\ pc = "init_GPIO0_wait2"
    /\ Emit(Nop(BusyWait(15)))
    /\ pc' = "init_GPIO0_REN"
    /\ UNCHANGED <<hw, ret, idx, i, el, arg, irqOn, gicd, shared, disp, callst>>

init_GPIO0_wait2 ==
    /\ pc = "init_GPIO0_wait2"
    /\ Emit(Nop(BusyWait(150)))
    /\ pc' = "init_GPIO0_REN"
    /\ UNCHANGED <<hw, ret, idx, i, el, arg, irqOn, gicd, shared, disp, callst>>

\* *GPREN0 = (0x1 << 0)
init_GPIO0_REN ==
    /\ pc = "init_GPIO0_REN"
    /\ GPREN0' = Shl(Bits(1), 0)
    /\ Emit(Wr("GPREN0", GPREN0'))
    /\ pc' = "return"
    /\ UNCHANGED <<GPFSEL0, GPFSEL1, GPPUPPDN0, GPFEN0, lev>>
    /\ UNCHANGED <<ret, idx, i, el, arg, irqOn, gicd, shared, disp, callst>>

\* ------------------------------------------ init_GPIO1_to_fallingEdgeInterrupt
init_GPIO1_wait0 ==
    /\ pc = "init_GPIO1_wait0"
    /\ Emit(Nop(BusyWait(150)))
    /\ pc' = "init_GPIO1_FSEL"
    /\ UNCHANGED <<hw, ret, idx, i, el, arg, irqOn, gicd, shared, disp, callst>>

init_GPIO1_FSEL ==
    /\ pc = "init_GPIO1_FSEL"
    /\ GPFSEL0' = GPIO1_FselValue(GPFSEL0)
    /\ Emit(Wr("GPFSEL0", GPFSEL0'))
    /\ pc' = "init_GPIO1_wait1"
    /\ UNCHANGED <<GPFSEL1, GPPUPPDN0, GPREN0, GPFEN0, lev>>
    /\ UNCHANGED <<ret, idx, i, el, arg, irqOn, gicd, shared, disp, callst>>

init_GPIO1_wait1 ==
    /\ pc = "init_GPIO1_wait1"
    /\ Emit(Nop(BusyWait(150)))
    /\ pc' = "init_GPIO1_PUD"
    /\ UNCHANGED <<hw, ret, idx, i, el, arg, irqOn, gicd, shared, disp, callst>>

init_GPIO1_PUD ==
    /\ pc = "init_GPIO1_PUD"
    /\ GPPUPPDN0' = GPIO1_PullValue(GPPUPPDN0)
    /\ Emit(Wr("GPPUPPDN0", GPPUPPDN0'))
    /\ pc' = "init_GPIO1_wait2"
    /\ UNCHANGED <<GPFSEL0, GPFSEL1, GPREN0, GPFEN0, lev>>
    /\ UNCHANGED <<ret, idx, i, el, arg, irqOn, gicd, shared, disp, callst>>

init_GPIO1_wait2 ==
    /\ pc = "init_GPIO1_wait2"
    /\ Emit(Nop(BusyWait(150)))
    /\ pc' = "init_GPIO1_FEN"
    /\ UNCHANGED <<hw, ret, idx, i, el, arg, irqOn, gicd, shared, disp, callst>>

\* Mutant of init_GPIO1_FEN: the word goes to the rising-edge register.
init_GPIO1_FEN_rising ==
    /\ pc = "init_GPIO1_FEN"
    /\ GPREN0' = Shl(Bits(1), 1)
    /\ Emit(Wr("GPREN0", GPREN0'))
    /\ pc' = "return"
    /\ UNCHANGED <<GPFSEL0, GPFSEL1, GPPUPPDN0, GPFEN0, lev>>
    /\ UNCHANGED <<ret, idx, i, el, arg, irqOn, gicd, shared, disp, callst>>

\* *GPFEN0 = (0x1 << 1)
init_GPIO1_FEN ==
    /\ pc = "init_GPIO1_FEN"
    /\ GPFEN0' = Shl(Bits(1), 1)
    /\ Emit(Wr("GPFEN0", GPFEN0'))
    /\ pc' = "return"
    /\ UNCHANGED <<GPFSEL0, GPFSEL1, GPPUPPDN0, GPREN0, lev>>
    /\ UNCHANGED <<ret, idx, i, el, arg, irqOn, gicd, shared, disp, callst>>

\* ------------------------------------------------------- output configuration
init_GPIO4_to_output ==
    /\ pc = "init_GPIO4_to_output"
    /\ GPFSEL0' = GPIO4_FselValue(GPFSEL0)
    /\ Emit(Wr("GPFSEL0", GPFSEL0'))
    /\ pc' = "return"
    /\ UNCHANGED <<GPFSEL1, GPPUPPDN0, GPREN0, GPFEN0, lev>>
    /\ UNCHANGED <<ret, idx, i, el, arg, irqOn, gicd, shared, disp, callst>>

init_GPIO12_to_output ==
    /\ pc = "init_GPIO12_to_output"
    /\ GPFSEL1' = GPIO12_FselValue(GPFSEL1)
    /\ Emit(Wr("GPFSEL1", GPFSEL1'))
    /\ pc' = "return"
    /\ UNCHANGED <<GPFSEL0, GPPUPPDN0, GPREN0, GPFEN0, lev>>
    /\ UNCHANGED <<ret, idx, i, el, arg, irqOn, gicd, shared, disp, callst>>

init_GPIO16_to_output ==
    /\ pc = "init_GPIO16_to_output"
    /\ GPFSEL1' = GPIO16_FselValue(GPFSEL1)
    /\ Emit(Wr("GPFSEL1", GPFSEL1'))
    /\ pc' = "return"
    /\ UNCHANGED <<GPFSEL0, GPPUPPDN0, GPREN0, GPFEN0, lev>>
    /\ UNCHANGED <<ret, idx, i, el, arg, irqOn, gicd, shared, disp, callst>>

\* ------------------------------------------------------------------ set_GPIO4
\* *GPREN0 &= ~(0x1 << 0)
set_GPIO4_disable ==
    /\ pc = "set_GPIO4"
    /\ GPREN0' = And(GPREN0, Not(Shl(Bits(1), 0)))
    /\ Emit(Wr("GPREN0", GPREN0'))
    /\ pc' = "set_GPIO4_set"
    /\ UNCHANGED <<GPFSEL0, GPFSEL1, GPPUPPDN0, GPFEN0, lev>>
    /\ UNCHANGED <<ret, idx, i, el, arg, irqOn, gicd, shared, disp, callst>>

\* Mutant of set_GPIO4_set: the routine returns after the GPSET0 write,
\* without the last write of GPREN0.
set_GPIO4_set_returns ==
    /\ pc = "set_GPIO4_set"
    /\ lev' = SetLines(lev, Shl(Bits(1), 4))
    /\ Emit(Wr("GPSET0", Shl(Bits(1), 4)))
    /\ pc' = "return"
    /\ UNCHANGED <<GPFSEL0, GPFSEL1, GPPUPPDN0, GPREN0, GPFEN0>>
    /\ UNCHANGED <<ret, idx, i, el, arg, irqOn, gicd, shared, disp, callst>>

\* *GPSET0 = (0x1 << 4)
set_GPIO4_set ==
    /\ pc = "set_GPIO4_set"
    /\ lev' = SetLines(lev, Shl(Bits(1), 4))
    /\ Emit(Wr("GPSET0", Shl(Bits(1), 4)))
    /\ pc' = "set_GPIO4_enable"
    /\ UNCHANGED <<GPFSEL0, GPFSEL1, GPPUPPDN0, GPREN0, GPFEN0>>
    /\ UNCHANGED <<ret, idx, i, el, arg, irqOn, gicd, shared, disp, callst>>

\* Mutant of set_GPIO4_enable: the last write clears bit 0 again instead of
\* setting it.
set_GPIO4_enable_cleared ==
    /\ pc = "set_GPIO4_enable"
    /\ GPREN0' = And(GPREN0, Not(Shl(Bits(1), 0)))
    /\ Emit(Wr("GPREN0", GPREN0'))
    /\ pc' = "return"
    /\ UNCHANGED <<GPFSEL0, GPFSEL1, GPPUPPDN0, GPFEN0, lev>>
    /\ UNCHANGED <<ret, idx, i, el, arg, irqOn, gicd, shared, disp, callst>>

\* *GPREN0 |= (0x1 << 0)
set_GPIO4_enable ==
    /\ pc = "set_GPIO4_enable"
    /\ GPREN0' = Or(GPREN0, Shl(Bits(1), 0))
    /\ Emit(Wr("GPREN0", GPREN0'))
    /\ pc' = "return"
    /\ UNCHANGED <<GPFSEL0, GPFSEL1, GPPUPPDN0, GPFEN0, lev>>
    /\ UNCHANGED <<ret, idx, i, el, arg, irqOn, gicd, shared, disp, callst>>

\* ------------------------------------------------- the other set/clear routines
\* A routine that is one write of mask m to GPSET0.
SetRoutine(name, m) ==
    /\ pc = name
    /\ lev' = SetLines(lev, m)
    /\ Emit(Wr("GPSET0", m))
    /\ pc' = "return"
    /\ UNCHANGED <<GPFSEL0, GPFSEL1, GPPUPPDN0, GPREN0, GPFEN0>>
    /\ UNCHANGED <<ret, idx, i, el, arg, irqOn, gicd, shared, disp, callst>>

\* A routine that is one write of mask m to GPCLR0.
ClearRoutine(name, m) ==
    /\ pc = name
    /\ lev' = ClearLines(lev, m)
    /\ Emit(Wr("GPCLR0", m))
    /\ pc' = "return"
    /\ UNCHANGED <<GPFSEL0, GPFSEL1, GPPUPPDN0, GPREN0, GPFEN0>>
    /\ UNCHANGED <<ret, idx, i, el, arg, irqOn, gicd, shared, disp, callst>>

clear_GPIO4 == ClearRoutine("clear_GPIO4", Shl(Bits(1), 4))
set_GPIO12 == SetRoutine("set_GPIO12", Shl(Bits(1), 12))
\* Mutant of clear_GPIO12: the mask is that of line 16.
clear_GPIO12_line16 == ClearRoutine("clear_GPIO12", Shl(Bits(1), 16))
clear_GPIO12 == ClearRoutine("clear_GPIO12", Shl(Bits(1), 12))
set_GPIO16 == SetRoutine("set_GPIO16", Shl(Bits(1), 16))
clear_GPIO16 == ClearRoutine("clear_GPIO16", Shl(Bits(1), 16))

\* microsecond_delay(arg): waits arg microseconds and touches no register.
microsecond_delay ==
    /\ pc = "microsecond_delay"
    /\ Emit(Delay(arg))
    /\ pc' = "return"
    /\ UNCHANGED <<hw, ret, idx, i, el, arg, irqOn, gicd, shared, disp, callst>>

\* The routine returns to its caller.
Return ==
    /\ pc = "return"
    /\ pc' = ret
    /\ UNCHANGED <<hw, ret, idx, i, el, arg, irqOn, gicd, shared, disp, callst,
                   log, pass>>

\* First position of each routine.
Entry(fn) ==
    CASE fn = "init_GPIO0_to_risingEdgeInterrupt" -> "init_GPIO0_FSEL"
      [] fn = "init_GPIO1_to_fallingEdgeInterrupt" -> "init_GPIO1_wait0"
      [] OTHER -> fn

Routine ==
    \/ init_GPIO0_FSEL \/ init_GPIO0_wait1 \/ init_GPIO0_PUD
    \/ init_GPIO0_wait2 \/ init_GPIO0_REN
    \/ init_GPIO1_wait0 \/ init_GPIO1_FSEL \/ init_GPIO1_wait1
    \/ init_GPIO1_PUD \/ init_GPIO1_wait2 \/ init_GPIO1_FEN
    \/ init_GPIO4_to_output \/ init_GPIO12_to_output \/ init_GPIO16_to_output
    \/ set_GPIO4_disable \/ set_GPIO4_set \/ set_GPIO4_enable
    \/ clear_GPIO4 \/ set_GPIO12 \/ clear_GPIO12 \/ set_GPIO16 \/ clear_GPIO16
    \/ microsecond_delay
    \/ Return

\* ------------------------------------------------------------ call harness
\* The register routines of main.c, callable on any register contents.
Routines ==
    {"init_GPIO0_to_risingEdgeInterrupt", "init_GPIO1_to_fallingEdgeInterrupt",
     "init_GPIO4_to_output", "init_GPIO12_to_output", "init_GPIO16_to_output",
     "set_GPIO4", "clear_GPIO4", "set_GPIO12", "clear_GPIO12",
     "set_GPIO16", "clear_GPIO16", "microsecond_delay"}

\* A caller invokes routine fn with argument a; the return address is r.
Invoke(fn, a, r) ==
    /\ pc' = Entry(fn)
    /\ ret' = r
    /\ arg' = a
    /\ cur' = fn
    /\ prev' = cur
    /\ entry' = Snapshot
    /\ before' = entry

Call ==
    /\ pc = "idle"
    /\ calls < MaxCalls
    /\ \E fn \in Routines :
          Invoke(fn, IF fn = "microsecond_delay" THEN 250000 ELSE 0, "idle")
    /\ calls' = calls + 1
    /\ log' = << >>
    /\ UNCHANGED <<hw, idx, i, el, irqOn, gicd, shared, disp, pass>>

CallInit == InitAt("idle")
CallNext == Call \/ Routine
CallSpec == CallInit /\ [][CallNext]_vars

\* ------------------------------------------------------------------- main
\* The register addressed by BASE + off for a distributor register bank:
\* off is a byte offset, registers are 4 bytes wide.
RegIndex(off) == off \div 4

\* Interrupt ID of the GPIO bank 0 interrupt (pins 0-27): bit 17 of the
\* register main reads back as GICD_ISENABLER1.
GPIO_BANK0_IRQ == 49
\* Number of interrupt IDs of the configured range: two enable-set registers
\* of 32 IDs each.
NumInterruptIDs == 64

\* The distributor register <<bank, k>> receives word w.
GicWrite(bank, k, w) ==
    /\ gicd' = (<<bank, k>> :> w) @@ gicd
    /\ log' = Append(log, GicWr(bank, k, w))

\* Call sequence of lines 85-89.
SetupCalls ==
    <<"init_GPIO0_to_risingEdgeInterrupt", "init_GPIO1_to_fallingEdgeInterrupt",
      "init_GPIO4_to_output", "init_GPIO12_to_output", "init_GPIO16_to_output">>

SetCall(fn) == [fn |-> fn, arg |-> 0]
DelayCall(n) == [fn |-> "microsecond_delay", arg |-> n]

\* Mutant of Pattern0: the first and the last phase assert each other's line.
Pattern0_swapped ==
    <<SetCall("set_GPIO4"), SetCall("clear_GPIO12"), SetCall("clear_GPIO16"),
      DelayCall(500000),
      SetCall("set_GPIO12"), SetCall("clear_GPIO16"), SetCall("clear_GPIO4"),
      DelayCall(500000),
      SetCall("set_GPIO16"), SetCall("clear_GPIO12"), SetCall("clear_GPIO4"),
      DelayCall(500000)>>

\* Call sequence of the branch sharedValue == 0.
Pattern0 ==
    <<SetCall("set_GPIO16"), SetCall("clear_GPIO12"), SetCall("clear_GPIO4"),
      DelayCall(500000),
      SetCall("set_GPIO12"), SetCall("clear_GPIO16"), SetCall("clear_GPIO4"),
      DelayCall(500000),
      SetCall("set_GPIO4"), SetCall("clear_GPIO12"), SetCall("clear_GPIO16"),
      DelayCall(500000)>>

\* Mutant of Pattern1: the last dwell is that of the other pattern.
Pattern1_slowLast ==
    <<SetCall("set_GPIO4"), SetCall("clear_GPIO12"), SetCall("clear_GPIO16"),
      DelayCall(250000),
      SetCall("set_GPIO12"), SetCall("clear_GPIO4"), SetCall("clear_GPIO16"),
      DelayCall(250000),
      SetCall("set_GPIO16"), SetCall("clear_GPIO4"), SetCall("clear_GPIO12"),
      DelayCall(500000)>>

\* Call sequence of the branch sharedValue == 1.
Pattern1 ==
    <<SetCall("set_GPIO4"), SetCall("clear_GPIO12"), SetCall("clear_GPIO16"),
      DelayCall(250000),
      SetCall("set_GPIO12"), SetCall("clear_GPIO4"), SetCall("clear_GPIO16"),
      DelayCall(250000),
      SetCall("set_GPIO16"), SetCall("clear_GPIO4"), SetCall("clear_GPIO12"),
      DelayCall(250000)>>

PatternOf(b) == IF b = "state0" THEN Pattern0 ELSE Pattern1

\* el = getCurrentEL()
main_getCurrentEL ==
    /\ pc = "L40"
    /\ \E e \in 0 .. EL3 : el' = e
    /\ pc' = "L77"
    /\ UNCHANGED <<hw, ret, idx, i, arg, irqOn, gicd, shared, disp, callst,
                   log, pass>>

\* sharedValue = 0; redBool = 1
main_initShared ==
    /\ pc = "L77"
    /\ sharedValue' = 0
    /\ redBool' = 1
    /\ mainWrites' = mainWrites + 1
    /\ pc' = "L85"
    /\ idx' = 1
    /\ UNCHANGED <<hw, ret, i, el, arg, irqOn, gicd, disp, callst, log, pass>>

\* The five line-configuration calls.
main_setupGPIO ==
    /\ pc = "L85"
    /\ Invoke(SetupCalls[idx], 0,
              IF idx = Len(SetupCalls) THEN "L92" ELSE "L85")
    /\ idx' = IF idx = Len(SetupCalls) THEN 1 ELSE idx + 1
    /\ UNCHANGED <<hw, i, el, irqOn, gicd, shared, disp, calls, log, pass>>

\* enableIRQ()
main_enableIRQ ==
    /\ pc = "L92"
    /\ irqOn' = TRUE
    /\ log' = Append(log, Ev("enableIRQ", "", {}, 0))
    /\ pc' = "L115"
    /\ i' = 0
    /\ UNCHANGED <<hw, ret, idx, el, arg, gicd, shared, disp, callst, pass>>

\* Mutant of main_priorityLoop: the index is not scaled to a register offset
\* (GIC_GICD_IPRIORITYR + i), so four iterations hit the same register.
main_priorityLoop_unscaled ==
    /\ pc = "L115"
    /\ IF i < 16
       THEN /\ GicWrite("GICD_IPRIORITYR", RegIndex(i), Bits(0))
            /\ i' = i + 1
            /\ pc' = "L115"
       ELSE /\ i' = 8
            /\ pc' = "L119"
            /\ UNCHANGED <<gicd, log>>
    /\ UNCHANGED <<hw, ret, idx, el, arg, irqOn, shared, disp, callst, pass>>

\* for (i = 0; i < 16; i++) *(GIC_GICD_IPRIORITYR + (i * 4)) = 0x00000000
main_priorityLoop ==
    /\ pc = "L115"
    /\ IF i < 16
       THEN /\ GicWrite("GICD_IPRIORITYR", RegIndex(i * 4), Bits(0))
            /\ i' = i + 1
            /\ pc' = "L115"
       ELSE /\ i' = 8
            /\ pc' = "L119"
            /\ UNCHANGED <<gicd, log>>
    /\ UNCHANGED <<hw, ret, idx, el, arg, irqOn, shared, disp, callst, pass>>

\* for (i = 8; i < 16; i++) *(GIC_GICD_ITARGETSR + (i * 4)) = 0x01010101
main_targetLoop ==
    /\ pc = "L119"
    /\ IF i < 16
       THEN /\ GicWrite("GICD_ITARGETSR", RegIndex(i * 4), Bits(16843009))
            /\ i' = i + 1
            /\ pc' = "L119"
       ELSE /\ i' = 1
            /\ pc' = "L123"
            /\ UNCHANGED <<gicd, log>>
    /\ UNCHANGED <<hw, ret, idx, el, arg, irqOn, shared, disp, callst, pass>>

\* Mutant of main_configLoop: the loop stops one register early (i < 3).
main_configLoop_short ==
    /\ pc = "L123"
    /\ IF i < 3
       THEN /\ GicWrite("GICD_ICFGR", RegIndex(i * 4), AllBits)
            /\ i' = i + 1
            /\ pc' = "L123"
       ELSE /\ i' = i
            /\ pc' = "L128"
            /\ UNCHANGED <<gicd, log>>
    /\ UNCHANGED <<hw, ret, idx, el, arg, irqOn, shared, disp, callst, pass>>

\* for (i = 1; i < 4; i++) *(GIC_GICD_ICFGR + (i * 4)) = 0xFFFFFFFF
main_configLoop ==
    /\ pc = "L123"
    /\ IF i < 4
       THEN /\ GicWrite("GICD_ICFGR", RegIndex(i * 4), AllBits)
            /\ i' = i + 1
            /\ pc' = "L123"
       ELSE /\ i' = i
            /\ pc' = "L128"
            /\ UNCHANGED <<gicd, log>>
    /\ UNCHANGED <<hw, ret, idx, el, arg, irqOn, shared, disp, callst, pass>>

\* Mutant of main_forwarding: the GICD_CTLR write is made at line 128, ahead
\* of the enable-set write.
main_forwarding_early ==
    /\ pc = "L128"
    /\ gicd' = (<<"GICD_ISENABLER", RegIndex(1 * 4)>> :> Bits(131072)) @@
                 (<<"GICD_CTLR", 0>> :> (IF el = EL3 THEN Bits(3) ELSE Bits(1)))
                 @@ gicd
    /\ log' = log \o
                 <<GicWr("GICD_CTLR", 0, IF el = EL3 THEN Bits(3) ELSE Bits(1)),
                   GicWr("GICD_ISENABLER", RegIndex(1 * 4), Bits(131072))>>
    /\ pc' = "L156"
    /\ UNCHANGED <<hw, ret, idx, i, el, arg, irqOn, shared, disp, callst, pass>>

\* Mutant of main_enableSet: the mask is one bit position off (0x00010000).
main_enableSet_bit16 ==
    /\ pc = "L128"
    /\ GicWrite("GICD_ISENABLER", RegIndex(1 * 4), Bits(65536))
    /\ pc' = "L140"
    /\ UNCHANGED <<hw, ret, idx, i, el, arg, irqOn, shared, disp, callst, pass>>

\* *(GIC_GICD_ISENABLER + (1 * 4)) = 0x00020000
main_enableSet ==
    /\ pc = "L128"
    /\ GicWrite("GICD_ISENABLER", RegIndex(1 * 4), Bits(131072))
    /\ pc' = "L140"
    /\ UNCHANGED <<hw, ret, idx, i, el, arg, irqOn, shared, disp, callst, pass>>

\* Mutant of main_forwarding: the two masks are exchanged.
main_forwarding_exchanged ==
    /\ pc = "L140"
    /\ GicWrite("GICD_CTLR", 0, IF el = EL3 THEN Bits(1) ELSE Bits(3))
    /\ pc' = "L156"
    /\ UNCHANGED <<hw, ret, idx, i, el, arg, irqOn, shared, disp, callst, pass>>

\* if (el == 0x3) *GIC_GICD_CTLR = 0x3; else *GIC_GICD_CTLR = 0x1
main_forwarding ==
    /\ pc = "L140"
    /\ GicWrite("GICD_CTLR", 0, IF el = EL3 THEN Bits(3) ELSE Bits(1))
    /\ pc' = "L156"
    /\ UNCHANGED <<hw, ret, idx, i, el, arg, irqOn, shared, disp, callst, pass>>

\* Mutant of main_sample0: the word is loaded once; after an iteration that
\* ran no pattern the comparison uses the value still held from it.
main_sample0_held ==
    /\ pc = "L156"
    /\ LET v == IF branch = "none" /\ sample1 # NoSample
                THEN sample1 ELSE sharedValue
       IN  /\ sample0' = v
           /\ IF v = 0
              THEN branch' = "state0" /\ pc' = "pattern"
              ELSE branch' = "none" /\ pc' = "L169"
    /\ startLev' = lev
    /\ pass' = << >>
    /\ idx' = 1
    /\ sample1' = NoSample
    /\ UNCHANGED <<hw, ret, i, el, arg, irqOn, gicd, shared, callst, log>>

\* while (1) { if (sharedValue == 0) {
\* The first comparison of an iteration loads the word: the load follows the
\* volatile nop loop of lines 184-187 or the calls before the loop.
main_sample0 ==
    /\ pc = "L156"
    /\ sample0' = sharedValue
    /\ startLev' = lev
    /\ pass' = << >>
    /\ idx' = 1
    /\ IF sharedValue = 0
       THEN branch' = "state0" /\ pc' = "pattern"
       ELSE branch' = "none" /\ pc' = "L169"
    /\ sample1' = NoSample
    /\ UNCHANGED <<hw, ret, i, el, arg, irqOn, gicd, shared, callst, log>>

\* Mutant of main_sample1: a plain else, the second pattern runs for every
\* value other than 0.
main_sample1_else ==
    /\ pc = "L169"
    /\ \E v \in {sample0, sharedValue} :
          /\ sample1' = v
          /\ branch' = "state1" /\ pc' = "pattern"
    /\ UNCHANGED <<hw, ret, idx, i, el, arg, irqOn, gicd, shared, sample0,
                   startLev, callst, log, pass>>

\* } else if (sharedValue == 1) {
\* sharedValue is not volatile: the comparison uses the value loaded for the
\* first comparison or a fresh load.
main_sample1 ==
    /\ pc = "L169"
    /\ \E v \in {sample0, sharedValue} :
          /\ sample1' = v
          /\ IF v = 1
             THEN branch' = "state1" /\ pc' = "pattern"
             ELSE branch' = "none" /\ pc' = "L184"
    /\ UNCHANGED <<hw, ret, idx, i, el, arg, irqOn, gicd, shared, sample0,
                   startLev, callst, log, pass>>

\* Mutant of main_pattern: the pass is abandoned when the shared word no
\* longer holds the value the pass was started for.
main_pattern_abort ==
    /\ pc = "pattern"
    /\ IF \/ branch = "state0" /\ sharedValue # 0
          \/ branch = "state1" /\ sharedValue # 1
       THEN /\ pc' = "L184"
            /\ idx' = 1
            /\ UNCHANGED <<ret, arg, cur, prev, entry, before>>
       ELSE LET P == PatternOf(branch)
            IN  /\ Invoke(P[idx].fn, P[idx].arg,
                          IF idx = Len(P) THEN "L184" ELSE "pattern")
                /\ idx' = IF idx = Len(P) THEN 1 ELSE idx + 1
    /\ UNCHANGED <<hw, i, el, irqOn, gicd, shared, disp, calls, log, pass>>

\* The next call of the chosen pattern.
main_pattern ==
    /\ pc = "pattern"
    /\ LET P == PatternOf(branch)
       IN  /\ Invoke(P[idx].fn, P[idx].arg,
                     IF idx = Len(P) THEN "L184" ELSE "pattern")
           /\ idx' = IF idx = Len(P) THEN 1 ELSE idx + 1
    /\ UNCHANGED <<hw, i, el, irqOn, gicd, shared, disp, calls, log, pass>>

\* Mutant of main_pollWait: the dispatcher resets the shared word after the
\* busy-wait.
main_pollWait_resets ==
    /\ pc = "L184"
    /\ pass' = Append(pass, Nop(BusyWait(65535)))
    /\ pc' = "L156"
    /\ sharedValue' = 0
    /\ UNCHANGED <<hw, ret, idx, i, el, arg, irqOn, gicd, redBool, mainWrites,
                   disp, callst, log>>

\* value = 0x0000FFFF; while (value--) { nop }
main_pollWait ==
    /\ pc = "L184"
    /\ pass' = Append(pass, Nop(BusyWait(65535)))
    /\ pc' = "L156"
    /\ UNCHANGED <<hw, ret, idx, i, el, arg, irqOn, gicd, shared, disp, callst,
                   log>>

\* The external interrupt handler: runs once IRQs are unmasked and stores a
\* new selector value in the shared word.
IRQ_handler ==
    /\ irqOn
    /\ \E v \in 0 .. MaxShared :
          /\ v # sharedValue
          /\ sharedValue' = v
    /\ UNCHANGED <<pc, hw, ret, idx, i, el, arg, irqOn, gicd, redBool,
                   mainWrites, disp, callst, log, pass>>

Main ==
    \/ main_getCurrentEL \/ main_initShared \/ main_setupGPIO
    \/ main_enableIRQ \/ main_priorityLoop \/ main_targetLoop
    \/ main_configLoop \/ main_enableSet \/ main_forwarding
    \/ main_sample0 \/ main_sample1 \/ main_pattern \/ main_pollWait

Init == InitAt("L40")
Next == Main \/ Routine \/ IRQ_handler
Spec == Init /\ [][Next]_vars

\* The program with a dispatcher that keeps running: every delay and
\* busy-wait terminates and main takes its next step; the interrupt context
\* is free to stay silent.
FairSpec == Spec /\ WF_vars(Main \/ Routine)

\* The program with an interrupt context that only stores 0 or 1 in the
\* shared word.
IRQ_binary == IRQ_handler /\ sharedValue' \in {0, 1}
NextBinary == Main \/ Routine \/ IRQ_binary
SpecBinary == Init /\ [][NextBinary]_vars

\* ================================================================ claims
\* Positions of the setup history whose event satisfies the given test.
LogEnableIRQ == {k \in DOMAIN log : log[k].op = "enableIRQ"}
LogFselWrites ==
    {k \in DOMAIN log :
        log[k].op = "write" /\ log[k].reg \in {"GPFSEL0", "GPFSEL1"}}
GicBanks ==
    {"GICD_IPRIORITYR", "GICD_ITARGETSR", "GICD_ICFGR", "GICD_ISENABLER",
     "GICD_CTLR"}
GicBanksWritten == {k[1] : k \in DOMAIN gicd}

\* The three output lines A (GPIO4), B (GPIO12), C (GPIO16).
OutputLines == {4, 12, 16}
Asserted == lev \cap OutputLines

\* ---------------------------------------------------------------- C1
\* C1: global interrupt delivery is enabled exactly once, and only after
\* every configuration step: whenever IRQs are unmasked, all five line
\* configuration calls have written their function-select register and every
\* distributor bank (priority, target, trigger configuration, enable-set,
\* forwarding control) has been written; enableIRQ appears at most once.
C1_EnableIRQAfterAllConfig ==
    /\ Cardinality(LogEnableIRQ) <= 1
    /\ irqOn =>
          /\ Cardinality(LogEnableIRQ) = 1
          /\ Cardinality(LogFselWrites) = Len(SetupCalls)
          /\ GicBanksWritten = GicBanks

\* ---------------------------------------------------------------- C2
\* Interrupt IDs whose enable bit has been set: 32 IDs per enable-set register.
EnableSetRegs == {q \in DOMAIN gicd : q[1] = "GICD_ISENABLER"}
EnabledIDs == UNION {{32 * k[2] + b : b \in gicd[k]} : k \in EnableSetRegs}
\* The 8-bit priority field of id (4 IDs per register) has been written with 0.
PriorityZeroed(id) ==
    /\ <<"GICD_IPRIORITYR", id \div 4>> \in DOMAIN gicd
    /\ Field(gicd[<<"GICD_IPRIORITYR", id \div 4>>], 8 * (id % 4), 8) = {}
\* The 2-bit configuration field of id (16 IDs per register) has both bits set.
EdgeConfigured(id) ==
    /\ <<"GICD_ICFGR", id \div 16>> \in DOMAIN gicd
    /\ Field(gicd[<<"GICD_ICFGR", id \div 16>>], 2 * (id % 16), 2) = {0, 1}

AfterAssertWrite ==
    /\ InLoop
    /\ \/ pc = "return" /\ cur \in {"set_GPIO12", "set_GPIO16"}
       \/ pc = "set_GPIO4_enable"
\* A dwell of the current pass has completed: the phase is not the first.
LaterPhase == \E k \in DOMAIN pass : pass[k].op = "delay"

\* C3: immediately after a phase's assert write exactly one of the three
\* output lines is asserted; stated for the phases that follow another phase
\* of the same pass, the case the claim names.
C3_OneLineAfterAssert ==
    (AfterAssertWrite /\ LaterPhase) => Cardinality(Asserted) = 1

\* ---------------------------------------------------------------- C4, C5
IsAssertOrDwell(e) ==
    \/ e.op = "write" /\ e.reg = "GPSET0"
    \/ e.op = "delay"
AssertsAndDwells(s) == SelectSeq(s, IsAssertOrDwell)
IsPrefix(s, t) == Len(s) <= Len(t) /\ s = SubSeq(t, 1, Len(s))
PassDone == pc \in {"L184", "L156"}

Line(n) == Shl(Bits(1), n)
ExpectedState0 ==
    <<Wr("GPSET0", Line(16)), Delay(500000), Wr("GPSET0", Line(12)),
      Delay(500000), Wr("GPSET0", Line(4)), Delay(500000)>>
ExpectedState1 ==
    <<Wr("GPSET0", Line(4)), Delay(250000), Wr("GPSET0", Line(12)),
      Delay(250000), Wr("GPSET0", Line(16)), Delay(250000)>>

\* C4: an iteration whose sample of the shared word is 0 asserts C, B, A in
\* that order, each assertion followed by a 500000 us dwell; its asserts and
\* dwells are always a prefix of that sequence and are the whole sequence when
\* the pass is over.
C4_State0Order ==
    /\ sample0 = 0 => branch = "state0"
    /\ branch = "state0" =>
          /\ sample0 = 0
          /\ IsPrefix(AssertsAndDwells(pass), ExpectedState0)
          /\ PassDone => AssertsAndDwells(pass) = ExpectedState0

\* C4 witness: a pass of pattern 0 has completed.
C4_Witness ==
    pc = "L184" /\ sample0 = 0 /\ AssertsAndDwells(pass) = ExpectedState0

\* C5: an iteration whose comparison with 1 reads the value 1 asserts A, B, C
\* in that order, each assertion followed by a 250000 us dwell.
C5_State1Order ==
    /\ sample1 = 1 => branch = "state1"
    /\ branch = "state1" =>
          /\ sample1 = 1
          /\ IsPrefix(AssertsAndDwells(pass), ExpectedState1)
          /\ PassDone => AssertsAndDwells(pass) = ExpectedState1

\* C5 witness: a pass of pattern 1 has completed.
C5_Witness ==
    pc = "L184" /\ sample1 = 1 /\ AssertsAndDwells(pass) = ExpectedState1

\* ---------------------------------------------------------------- C6
\* Both comparisons of the iteration were made on values outside {0, 1}.
SampledOther ==
    /\ sample0 \notin {NoSample, 0, 1}
    /\ sample1 \notin {NoSample, 0, 1}

\* C6: an iteration that sampled a value outside {0, 1} runs no pattern: it
\* writes no register (its history holds at most the final busy-wait) and
\* the output levels equal those at its start.
C6_OtherValueNoOutputChange ==
    SampledOther =>
        /\ branch = "none"
        /\ lev = startLev
        /\ \A k \in DOMAIN pass : pass[k].op = "nop"
        /\ pc \in {"L184", "L156"}

\* C6 witness: such an iteration has run to its end.
C6_Witness ==
    SampledOther /\ pc = "L156" /\ pass = <<Nop(65535)>> /\ Asserted # {}

\* ---------------------------------------------------------------- C7
\* C7: set_GPIO4 on any content of GPREN0: before its first write GPREN0 is
\* untouched; between its first and last write bit 0 is clear; when it returns
\* bit 0 is set, the other bits are those at entry, and its writes were, in
\* order, GPREN0 with bit 0 cleared, GPSET0 with the mask of line 4, GPREN0
\* with bit 0 set.
C7_SelfTriggerGuard ==
    cur = "set_GPIO4" =>
        /\ pc = "set_GPIO4" => GPREN0 = entry.GPREN0
        /\ pc \in {"set_GPIO4_set", "set_GPIO4_enable"} =>
              /\ 0 \notin GPREN0
              /\ GPREN0 = entry.GPREN0 \ {0}
        /\ pc = "set_GPIO4_enable" => 4 \in lev
        /\ pc = "return" =>
              /\ 0 \in GPREN0
              /\ GPREN0 \ {0} = entry.GPREN0 \ {0}
              /\ 4 \in lev
              /\ log = <<Wr("GPREN0", entry.GPREN0 \ {0}),
                         Wr("GPSET0", Line(4)),
                         Wr("GPREN0", entry.GPREN0 \cup {0})>>

\* C7 witness: set_GPIO4 has returned after being called with bit 0 of GPREN0
\* clear and other bits set.
C7_Witness ==
    /\ pc = "return" /\ cur = "set_GPIO4"
    /\ 0 \notin entry.GPREN0 /\ entry.GPREN0 # {}

\* ---------------------------------------------------------------- C8
\* C8: main stores to the shared word once, before IRQs are unmasked (the
\* store of 0); every other change of the shared word is a step of the
\* interrupt context, which leaves main's position unchanged.
C8_SingleWriter ==
    /\ [](irqOn => mainWrites = 1)
    /\ [][/\ mainWrites' # mainWrites =>
                (mainWrites = 0 /\ ~irqOn /\ sharedValue' = 0)
          /\ sharedValue' # sharedValue =>
                \/ mainWrites' # mainWrites
                \/ (irqOn /\ pc' = pc /\ idx' = idx)]_vars

\* C8 witness: the interrupt context has changed the shared word and the
\* dispatcher is running the pattern it selected.
C8_Witness ==
    /\ mainWrites = 1 /\ sharedValue = 1 /\ branch = "state1"
    /\ pc = "L184"

\* ---------------------------------------------------------------- C9
\* The routine cur has executed its last statement.
Returned(fn) == pc = "return" /\ cur = fn

\* C9: after each edge-input configuration routine the 2-bit pull field of
\* its line (bits 2n+1..2n of GPPUPPDN0) is 00 and the rest of the register
\* is as at entry.
C9_PullDisabled ==
    /\ Returned("init_GPIO0_to_risingEdgeInterrupt") =>
          /\ Field(GPPUPPDN0, 0, 2) = {}
          /\ Outside(GPPUPPDN0, 0, 2) = Outside(entry.GPPUPPDN0, 0, 2)
    /\ Returned("init_GPIO1_to_fallingEdgeInterrupt") =>
          /\ Field(GPPUPPDN0, 2, 2) = {}
          /\ Outside(GPPUPPDN0, 2, 2) = Outside(entry.GPPUPPDN0, 2, 2)

\* ---------------------------------------------------------------- C10
\* Function select: 10 lines per register, 3 bits per line.
FselShift(line) == 3 * (line % 10)
FselReg(snap, line) == IF line \div 10 = 0 THEN snap.GPFSEL0 ELSE snap.GPFSEL1
\* The routine left line's field at mode and the rest of the register as at
\* entry.
FselFieldOnly(line, mode) ==
    /\ Field(FselReg(Snapshot, line), FselShift(line), 3) = Bits(mode)
    /\ Outside(FselReg(Snapshot, line), FselShift(line), 3)
          = Outside(FselReg(entry, line), FselShift(line), 3)

\* C10: each line-configuration routine sets the function-select field of
\* its line to 000 (input) or 001 (output) and leaves every other bit of that
\* register unchanged.
C10_FselFieldOnly ==
    /\ Returned("init_GPIO0_to_risingEdgeInterrupt") => FselFieldOnly(0, 0)
    /\ Returned("init_GPIO1_to_fallingEdgeInterrupt") => FselFieldOnly(1, 0)
    /\ Returned("init_GPIO4_to_output") => FselFieldOnly(4, 1)
    /\ Returned("init_GPIO12_to_output") => FselFieldOnly(12, 1)
    /\ Returned("init_GPIO16_to_output") => FselFieldOnly(16, 1)

\* C10 witness: init_GPIO16_to_output has returned after being called with
\* the field of line 16 at 111 and other bits of GPFSEL1 set.
C10_Witness ==
    /\ Returned("init_GPIO16_to_output")
    /\ Field(entry.GPFSEL1, 18, 3) = Bits(7)
    /\ Outside(entry.GPFSEL1, 18, 3) # {}

\* ---------------------------------------------------------------- C11
\* Positions of the setup history that are writes to a distributor bank.
LogBank(bank) ==
    {k \in DOMAIN log : log[k].op = "write" /\ log[k].reg = bank}
BothGroups == {0, 1}
SingleGroup == {0}
SetupDone == pc \in {"L156", "L169", "L184", "pattern"} \/ InLoop

\* C11: GICD_CTLR is written at most once, exactly once when setup is over;
\* the word written is 0x3 when el is 3 and 0x1 for every other value of el.
C11_ForwardingMask ==
    /\ Cardinality(LogBank("GICD_CTLR")) <= 1
    /\ SetupDone => Cardinality(LogBank("GICD_CTLR")) = 1
    /\ \A k \in LogBank("GICD_CTLR") :
          /\ log[k].n = 0
          /\ el = 3 => log[k].val = BothGroups
          /\ el # 3 => log[k].val = SingleGroup
          /\ gicd[<<"GICD_CTLR", 0>>] = log[k].val

\* C11 witness: setup is over at the highest level with both groups forwarded.
C11_Witness ==
    pc = "L156" /\ el = 3 /\ gicd[<<"GICD_CTLR", 0>>] = BothGroups

ConfiguredIDs == 0 .. (NumInterruptIDs - 1)
\* Positions of the setup history that write the priority field of id:
\* four 8-bit fields per priority register.
PriorityWritesOf(writes, id) ==
    {k \in writes : log[k].n = id \div 4}
PriorityLoopDone == irqOn /\ pc # "L115"

Rising == "init_GPIO0_to_risingEdgeInterrupt"
Falling == "init_GPIO1_to_fallingEdgeInterrupt"
EdgeRoutines == {Rising, Falling}
\* The routine fn has returned from its second call in a row.
ReturnedTwice(fn) == Returned(fn) /\ prev = fn

\* C14: when an edge-input routine is called twice in a row, the registers
\* after the second call are those after the first call, whatever the
\* function-select, pull and edge-detect registers held before.
C14_EdgeInitIdempotent ==
    \A fn \in EdgeRoutines : ReturnedTwice(fn) => Snapshot = entry

\* C14 witness: the falling-edge routine returned from its second call, the
\* first call having changed the function-select, the pull and the
\* edge-detect register.
C14_Witness ==
    /\ ReturnedTwice(Falling)
    /\ before.GPFSEL0 # entry.GPFSEL0
    /\ before.GPPUPPDN0 # entry.GPPUPPDN0
    /\ before.GPFEN0 # entry.GPFEN0

\* ---------------------------------------------------------------- C15
EdgeReg(fn) == IF fn = Rising THEN "GPREN0" ELSE "GPFEN0"
EdgeLine(fn) == IF fn = Rising THEN 0 ELSE 1
MinSettle == 150
\* Positions of the register writes of the current call.
LogWrites == {k \in DOMAIN log : log[k].op = "write"}
\* Registers written by the current call, in order.
RECURSIVE WrittenRegs(_)
WrittenRegs(s) ==
    IF s = << >> THEN << >>
    ELSE IF s[1].op = "write" THEN <<s[1].reg>> \o WrittenRegs(Tail(s))
    ELSE WrittenRegs(Tail(s))
\* A settle delay of at least MinSettle iterations lies between the writes at
\* positions j and k.
SettledBetween(j, k) ==
    \E m \in (j + 1) .. (k - 1) : log[m].op = "nop" /\ log[m].n >= MinSettle

\* C15: within a call of an edge-input routine the writes are, in order, the
\* function-select register, the pull register and the edge-detect register;
\* a settle delay of at least 150 iterations lies between any two of them;
\* the line's function-select field is 000 (input) once the edge bit is
\* written; and all three writes are made by the time the routine returns.
C15_EdgeInitOrder ==
    \A fn \in EdgeRoutines :
       cur = fn =>
          /\ IsPrefix(WrittenRegs(log), <<"GPFSEL0", "GPPUPPDN0", EdgeReg(fn)>>)
          /\ \A j, k \in LogWrites : j < k => SettledBetween(j, k)
          /\ (\E k \in LogWrites : log[k].reg = EdgeReg(fn)) =>
                Field(GPFSEL0, FselShift(EdgeLine(fn)), 3) = {}
          /\ Returned(fn) => Cardinality(LogWrites) = 3

\* C15 witness: the rising-edge routine returned; its line was not an input
\* at entry.
C15_Witness ==
    /\ Returned(Rising)
    /\ Field(entry.GPFSEL0, 0, 3) # {}
    /\ WrittenRegs(log) = <<"GPFSEL0", "GPPUPPDN0", "GPREN0">>

\* ---------------------------------------------------------------- C16
\* C16: after init_GPIO0_to_risingEdgeInterrupt followed by
\* init_GPIO1_to_fallingEdgeInterrupt, GPREN0 holds exactly bit 0 and GPFEN0
\* exactly bit 1, whatever the registers held before.
C16_BothEdgesArmed ==
    (Returned(Falling) /\ prev = Rising) => (GPREN0 = {0} /\ GPFEN0 = {1})

\* C16 witness: both routines ran in that order from registers that held
\* other bits.
C16_Witness ==
    /\ Returned(Falling) /\ prev = Rising
    /\ before.GPREN0 = AllBits /\ before.GPFEN0 = AllBits
    /\ GPREN0 = {0} /\ GPFEN0 = {1}

\* ---------------------------------------------------------------- C17
\* Place of a distributor bank in the setup order.
GicRank(bank) ==
    IF bank = "GICD_IPRIORITYR" THEN 1
    ELSE IF bank = "GICD_ITARGETSR" THEN 2
    ELSE IF bank = "GICD_ICFGR" THEN 3
    ELSE IF bank = "GICD_ISENABLER" THEN 4
    ELSE 5
\* Positions of the setup history that write a distributor register.
GicWrites == {k \in DOMAIN log : log[k].op = "write" /\ log[k].reg \in GicBanks}
ConfigComplete ==
    /\ Cardinality(LogBank("GICD_IPRIORITYR")) = 16
    /\ Cardinality(LogBank("GICD_ITARGETSR")) = 8
    /\ Cardinality(LogBank("GICD_ICFGR")) = 3
    /\ Cardinality(LogBank("GICD_ISENABLER")) = 1

\* C17: the distributor writes are made in the order priority, target,
\* trigger configuration, line enable, forwarding; GICD_CTLR is written at
\* most once, after every other distributor write, exactly once when setup
\* is over, and only when the other four groups of writes are complete.
C17_GicWriteOrder ==
    /\ \A j, k \in GicWrites :
          j < k => GicRank(log[j].reg) <= GicRank(log[k].reg)
    /\ \A j \in LogBank("GICD_CTLR") :
          /\ \A k \in GicWrites : k <= j
          /\ ConfigComplete
    /\ SetupDone => Cardinality(LogBank("GICD_CTLR")) = 1

\* C17 witness: setup is over and GICD_CTLR was written after the 28 other
\* distributor writes.
C17_Witness ==
    /\ pc = "L156"
    /\ Cardinality(GicWrites) = 29
    /\ log[Len(log)].reg = "GICD_CTLR"

\* ---------------------------------------------------------------- C18
PollWait == Nop(65535)
\* The dispatcher is back at the first comparison after an iteration.
IterationOver == pc = "L156" /\ sample0 # NoSample

\* C18: whatever the shared word holds meanwhile, an iteration that started
\* pattern v has made all three asserts and dwells of pattern v when the
\* dispatcher is next at a comparison; the 0xFFFF busy-wait is the last event
\* of every iteration, also of one that ran no pattern, and nothing of an
\* iteration follows it; the second comparison is made only when no pass was
\* started.
C18_PassRunsToCompletion ==
    /\ \A k \in DOMAIN pass :
          pass[k] = PollWait => (k = Len(pass) /\ pc = "L156")
    /\ IterationOver =>
          /\ pass # << >> /\ pass[Len(pass)] = PollWait
          /\ branch = "state0" => AssertsAndDwells(pass) = ExpectedState0
          /\ branch = "state1" => AssertsAndDwells(pass) = ExpectedState1
          /\ branch = "none" => pass = <<PollWait>>
    /\ pc = "L169" => (branch = "none" /\ pass = << >>)

\* C18 witness: a pass of pattern 0 and its busy-wait are over while the
\* shared word holds 1.
C18_Witness ==
    /\ IterationOver /\ branch = "state0" /\ sharedValue = 1
    /\ AssertsAndDwells(pass) = ExpectedState0
    /\ pass[Len(pass)] = PollWait

\* ---------------------------------------------------------------- C19
\* The value the running pass was started for.
ActedValue == IF branch = "state0" THEN 0 ELSE 1
\* A phase dwell of the dispatcher loop executes.
DwellStep == pc = "microsecond_delay" /\ pc' = "return" /\ InLoop

\* C19 (as claimed): no phase dwell executes between a store to the shared
\* word by the interrupt context and the dispatcher's next load of it, that
\* is, every dwell executes while the shared word still holds the value the
\* dispatcher last loaded.
C19_NoDwellOnStaleValue ==
    [][DwellStep => sharedValue = ActedValue]_vars

\* ---------------------------------------------------------------- C20
\* C20 (as claimed): when the shared word only ever holds 0 or 1, every
\* iteration that reaches the busy-wait has run one of the two patterns.
C20_OnePatternPerIteration ==
    pc = "L184" => branch \in {"state0", "state1"}

\* ---------------------------------------------------------------- C22
\* The dispatcher is in a phase dwell: microsecond_delay was called from a
\* pattern and has not returned to it yet.
InDwell ==
    InLoop /\ cur = "microsecond_delay" /\ pc \in {"microsecond_delay", "return"}
\* Masks written to GPSET0 by the current iteration, in order.
PassAsserts ==
    SelectSeq(pass, LAMBDA e : e.op = "write" /\ e.reg = "GPSET0")
\* The line asserted at the start of the current phase.
PhaseLine == PassAsserts[Len(PassAsserts)].val

\* C22: in every state of a phase dwell exactly one of the lines 4, 12, 16 is
\* high, the one whose set routine opened the phase, whatever the levels
\* were before the first pass.
C22_OneLineDuringDwell ==
    InDwell => (PassAsserts # << >> /\ Asserted = PhaseLine)

\* C22 witness: the first dwell of an iteration, entered with all three lines
\* high, holds with line 16 alone.
C22_Witness ==
    /\ InDwell /\ pc = "microsecond_delay"
    /\ OutputLines \subseteq startLev
    /\ Len(PassAsserts) = 1
    /\ Asserted = {16}

\* ---------------------------------------------------------------- C23
\* init_GPIO0_to_risingEdgeInterrupt has made its last write.
RisingConfigured ==
    \E k \in DOMAIN log : log[k].op = "write" /\ log[k].reg = "GPREN0"
\* set_GPIO4 is between its two writes of GPREN0.
InSelfTriggerGuard ==
    cur = "set_GPIO4" /\ pc \in {"set_GPIO4_set", "set_GPIO4_enable"}

\* C23 (as claimed): once init_GPIO0_to_risingEdgeInterrupt is complete, bit 0
\* of GPREN0 is set in every state main reaches.
C23_AlwaysArmed ==
    RisingConfigured => 0 \in GPREN0

\* C23 (amended): once init_GPIO0_to_risingEdgeInterrupt is complete, bit 0 of
\* GPREN0 is set in every state main reaches except those between the two
\* GPREN0 writes of set_GPIO4, where it is clear; it is set again when
\* set_GPIO4 returns.
C23_ArmedOutsideGuard ==
    RisingConfigured => (0 \in GPREN0 <=> ~InSelfTriggerGuard)

\* C23 witness: set_GPIO4 has returned to a pattern with bit 0 set again.
C23_Witness ==
    /\ RisingConfigured /\ InLoop
    /\ pc = "return" /\ cur = "set_GPIO4"
    /\ 0 \in GPREN0

\* ---------------------------------------------------------------- C21
StateOf(v) == IF v = 0 THEN "state0" ELSE "state1"
\* A pass of pattern v is complete.
PatternDone(v) ==
    /\ pc = "L184" /\ branch = StateOf(v)
    /\ AssertsAndDwells(pass) = IF v = 0 THEN ExpectedState0 ELSE ExpectedState1
\* A pass of the pattern other than v is running.
OtherPatternRuns(v) == branch = StateOf(1 - v) /\ pc \notin {"L156", "L169"}
\* If the shared word holds v from some point on, the dispatcher completes
\* passes of pattern v again and again.
EventuallyPattern(v) ==
    <>[](sharedValue = v) => []<>PatternDone(v)
\* From a load of the first comparison on with the shared word holding v for
\* good, no pass of the other pattern runs.
OnlyPatternAfterSample(v) ==
    []((pc = "L156" /\ [](sharedValue = v)) => []~OtherPatternRuns(v))

\* C21: when the interrupt context has stored v in {0, 1} and the shared word
\* is not stored again, a dispatcher that keeps running eventually executes
\* pattern v, and from its first load after the store on it runs no pass of
\* the other pattern.
C21_EventuallyLastValue ==
    /\ EventuallyPattern(0) /\ EventuallyPattern(1)
    /\ OnlyPatternAfterSample(0) /\ OnlyPatternAfterSample(1)

\* C21 witness: pattern 1 has completed after the first comparison loaded the
\* 1 stored by the interrupt context.
C21_Witness ==
    PatternDone(1) /\ sample0 = 1 /\ sharedValue = 1 /\ mainWrites = 1

====
